---- MODULE Spec2Model ----
(***************************************************************************)
(* CodeTrack: the SM-2 scheduler (SM2Algorithm) and the review-session     *)
(* manager (SpacedRepetitionManager) of services/spaced_repetition.py, and *)
(* the compatibility score of services/study_group_matcher.py.             *)
(*                                                                         *)
(* Ease factors are two-decimal floats in the code (round(x, 2)); here     *)
(* they are integers in hundredths (2.5 is 250).  Times are seconds.       *)
(***************************************************************************)
EXTENDS Integers, Sequences, FiniteSets, TLC

\* ------------------------------------------------------------------------
\* Bounds of the model
\* ------------------------------------------------------------------------
NumUsers == 1
NumCards == 2
MaxStarts == 2
MaxTicks == 2
MaxInterval == 85
MaxRepetitions == 2
MaxChain == 3
OutOfRange == 1
NumThreads == 2
MaxRequests == 1
MaxInterests == 1
MaxGroupSize == 10
NumGroups == 3

\* ------------------------------------------------------------------------
\* Program constants
\* ------------------------------------------------------------------------
min_ease_factor == 130
max_ease_factor == 400
default_ease_factor == 250
default_interval == 1
SessionTimeout == 7200
SecondsPerDay == 86400
RouteMaxCards == 20
RouteDefaultQuality == 2
GOOD == 2

NoTime == 0 - 1

Users == 1..NumUsers
CardIds == 1..NumCards
QualityInputs == (0 - OutOfRange)..(4 + OutOfRange)

Max2(a, b) == IF a >= b THEN a ELSE b
Min2(a, b) == IF a <= b THEN a ELSE b

\* ------------------------------------------------------------------------
\* SM2Algorithm
\* ------------------------------------------------------------------------

\* 0.1 - (5 - q) * (0.08 + (5 - q) * 0.02), in hundredths:
\* 10 - (5 - q) * (8 + (5 - q) * 2).
\* Variant: the inner sign of the formula flipped.
EaseDelta_inner_minus(quality) == 10 - (5 - quality) * (8 - (5 - quality) * 2)

\* Variant: the formula taken from the top of the 0..4 scale, 4 - q for 5 - q.
EaseDelta_from_four(quality) == 10 - (4 - quality) * (8 + (4 - quality) * 2)

EaseDelta(quality) == 10 - (5 - quality) * (8 + (5 - quality) * 2)

\* Variant: the formula without the clamp of line 111.
update_ease_factor_unclamped(current_ease_factor, quality) ==
    current_ease_factor + EaseDelta(quality)

update_ease_factor(current_ease_factor, quality) ==
    Max2(min_ease_factor,
         Min2(max_ease_factor, current_ease_factor + EaseDelta(quality)))

\* int(interval * ease_factor) multiplies an int by a binary double and
\* truncates.  For these (interval, ease) pairs, with interval <= 100, the
\* double product lies just below the exact integer product, and int()
\* returns one less than the exact floor (25 * 2.28 is 56.99999999999999).
FloatProductShort ==
    { <<25, 228>>, <<25, 232>>, <<45, 140>>, <<45, 280>>, <<50, 226>>,
      <<50, 228>>, <<50, 230>>, <<50, 232>>, <<60, 205>>, <<75, 164>>,
      <<75, 228>>, <<75, 276>>, <<75, 328>>, <<85, 140>>, <<85, 280>>,
      <<90, 140>>, <<90, 230>>, <<90, 280>>, <<100, 201>>, <<100, 203>>,
      <<100, 205>>, <<100, 207>>, <<100, 226>>, <<100, 228>>, <<100, 230>>,
      <<100, 232>>, <<100, 251>>, <<100, 253>>, <<100, 255>> }

ExactFloor(interval, ease_factor) == (interval * ease_factor) \div 100

IntOfProduct(interval, ease_factor) ==
    IF <<interval, ease_factor>> \in FloatProductShort
    THEN ExactFloor(interval, ease_factor) - 1
    ELSE ExactFloor(interval, ease_factor)

\* Variant: an out-of-range quality clamped to the nearest valid one.
ValidateQuality_nearest(quality) ==
    IF quality < 0 THEN 0 ELSE IF quality > 4 THEN 4 ELSE quality

ValidateQuality(quality) == IF quality < 0 \/ quality > 4 THEN 0 ELSE quality

\* Lines 70-84: repetitions and interval after the review.
new_repetitions(card_data, quality) ==
    IF quality < 3 THEN 0 ELSE card_data.repetition_count + 1

\* Variant: a failed recall scheduled like a successful one.
new_interval_no_reset(card_data, quality) ==
    LET repetitions == card_data.repetition_count + 1
    IN  IF repetitions = 1 THEN 1
        ELSE IF repetitions = 2 THEN 6
        ELSE IntOfProduct(card_data.interval, card_data.ease_factor)

\* Variant: the branch taken on repetitions before the increment of line 76.
new_interval_stale_repetitions(card_data, quality) ==
    IF quality < 3 THEN 1
    ELSE LET repetitions == card_data.repetition_count
         IN  IF repetitions = 1 THEN 1
             ELSE IF repetitions = 2 THEN 6
             ELSE IntOfProduct(card_data.interval, card_data.ease_factor)

new_interval(card_data, quality) ==
    IF quality < 3 THEN 1
    ELSE LET repetitions == card_data.repetition_count + 1
         IN  IF repetitions = 1 THEN 1
             ELSE IF repetitions = 2 THEN 6
             ELSE IntOfProduct(card_data.interval, card_data.ease_factor)

\* calculate_next_review(card_data, quality) at time t (datetime.now()).
calculate_next_review(card_data, quality_in, t) ==
    LET quality == ValidateQuality(quality_in)
        interval == new_interval(card_data, quality)
    IN  [ card_id |-> card_data.id,
          quality |-> quality,
          previous_interval |-> card_data.interval,
          new_interval |-> interval,
          previous_ease_factor |-> card_data.ease_factor,
          new_ease_factor |-> update_ease_factor(card_data.ease_factor, quality),
          repetitions |-> new_repetitions(card_data, quality),
          next_review |-> t + interval * SecondsPerDay,
          review_count |-> card_data.review_count + 1 ]


\* ------------------------------------------------------------------------
\* State
\* ------------------------------------------------------------------------
VARIABLES
    now,              \* datetime.now(), in seconds
    nticks,           \* clock advances so far (bounded by MaxTicks)
    nstarts,          \* start_review_session calls so far (bounded by MaxStarts)
    db,               \* the flashcards table: card id -> row
    review_sessions,  \* SpacedRepetitionManager.review_sessions: id -> session object
    heap,             \* the session dictionaries that are still referenced
    resp,             \* what the last call returned
    call,             \* history: the last call's circumstances
    audit,            \* history: per session id, what has happened to it
    threads,          \* the request threads inside review_card (SpecThreaded)
    tally,            \* history: what the request threads have done (SpecThreaded)
    sm,               \* the scheduler under test (SpecSM2, SpecChain)
    mt,               \* the matcher under test (SpecMatch)
    fm                \* find_best_matches under test (SpecFind)

vars == <<now, nticks, nstarts, db, review_sessions, heap, resp, call, audit, threads, tally, sm, mt, fm>>

NoCategory == ""
Categories == {"algorithms", "graphs"}
NoSid == <<0, 0>>

CardOwner(c) == ((c - 1) % NumUsers) + 1
CardCategory(c) == IF c % 2 = 0 THEN "graphs" ELSE "algorithms"

\* A Flashcard row as models.py creates it (column defaults).
NewFlashcard(c) ==
    [ user_id |-> CardOwner(c),
      category |-> CardCategory(c),
      ease_factor |-> default_ease_factor,
      interval |-> default_interval,
      repetition_count |-> 0,
      review_count |-> 0,
      last_reviewed |-> NoTime,
      next_review |-> NoTime ]

\* ------------------------------------------------------------------------
\* SpacedRepetitionManager: due cards
\* ------------------------------------------------------------------------
\* Variant: the due test that ignores next_review.
is_card_due_always(card, t) == TRUE

is_card_due(card, t) ==
    IF card.next_review = NoTime THEN TRUE ELSE t >= card.next_review

CardDict(c, table) ==
    [ id |-> c,
      category |-> table[c].category,
      ease_factor |-> table[c].ease_factor,
      interval |-> table[c].interval,
      repetition_count |-> table[c].repetition_count,
      review_count |-> table[c].review_count ]

\* The query's rows (in primary-key order) that are due, as dictionaries.
RECURSIVE DueFrom(_, _, _, _, _)
DueFrom(c, user_id, category, table, t) ==
    IF c > NumCards THEN << >>
    ELSE LET rest == DueFrom(c + 1, user_id, category, table, t)
             selected == /\ table[c].user_id = user_id
                         /\ (category = NoCategory \/ table[c].category = category)
                         /\ is_card_due(table[c], t)
         IN  IF selected THEN <<CardDict(c, table)>> \o rest ELSE rest

\* list.sort is stable; the key's first component is True for every
\* dictionary (none has a 'next_review' entry), so the order is by
\* ease_factor, ties in query order.
RECURSIVE InsertByEase(_, _)
InsertByEase(x, sorted) ==
    IF sorted = << >> THEN <<x>>
    ELSE IF sorted[Len(sorted)].ease_factor <= x.ease_factor
         THEN Append(sorted, x)
         ELSE Append(InsertByEase(x, SubSeq(sorted, 1, Len(sorted) - 1)),
                     sorted[Len(sorted)])

RECURSIVE SortByEase(_)
SortByEase(s) ==
    IF s = << >> THEN << >>
    ELSE InsertByEase(s[Len(s)], SortByEase(SubSeq(s, 1, Len(s) - 1)))

\* Variant: the slice taken before the sort.
get_due_cards_truncate_first(user_id, category, max_cards, table, t) ==
    LET due_cards == DueFrom(1, user_id, category, table, t)
    IN  SortByEase(SubSeq(due_cards, 1, Min2(max_cards, Len(due_cards))))

get_due_cards(user_id, category, max_cards, table, t) ==
    LET due_cards == SortByEase(DueFrom(1, user_id, category, table, t))
    IN  SubSeq(due_cards, 1, Min2(max_cards, Len(due_cards)))


\* ------------------------------------------------------------------------
\* Results returned to the caller, and the history variables
\* ------------------------------------------------------------------------
SessionNotFound == "Session not found"
SessionExhausted == "No more cards in session"

\* The quality_breakdown of a completion summary: how many logged qualities
\* are 0, 1, 2, 3 and 4.
NoBreakdown == [ again |-> 0, hard |-> 0, good |-> 0, easy |-> 0, perfect |-> 0 ]

NoResp ==
    [ op |-> "none", sid |-> NoSid, error |-> "", status |-> "",
      current_card |-> 0, completed |-> 0, total |-> 0, remaining |-> 0,
      total_cards_reviewed |-> 0, card_ids |-> << >>,
      start_time |-> NoTime, duration |-> 0, category |-> NoCategory,
      average_quality |-> 0, quality_breakdown |-> NoBreakdown ]

NoResult ==
    [ card_id |-> 0, quality |-> 0, previous_interval |-> 0, new_interval |-> 0,
      previous_ease_factor |-> 0, new_ease_factor |-> 0, repetitions |-> 0,
      next_review |-> 0, review_count |-> 0 ]

NoCall ==
    [ op |-> "none", sid |-> NoSid, stored |-> FALSE, expired |-> FALSE,
      finished |-> FALSE, applied |-> FALSE, store_ok |-> TRUE,
      position |-> 0, card_id |-> 0, clean |-> FALSE, nth |-> 0, n |-> 0,
      index_before |-> 0, index_after |-> 0,
      log_before |-> 0, log_after |-> 0,
      review_count_before |-> 0, review_count_after |-> 0,
      applied_sum |-> 0, result |-> NoResult ]

NewAudit(n, t) ==
    [ n |-> n, calls |-> 0, rejected |-> FALSE, last_activity |-> t,
      finished |-> FALSE, last_position |-> 0 ]

CardIdsOf(cards) == [ i \in 1..Len(cards) |-> cards[i].id ]

Expired(sid, t) ==
    sid \in DOMAIN audit /\ t - audit[sid].last_activity > SessionTimeout

\* ------------------------------------------------------------------------
\* Init
\* ------------------------------------------------------------------------
NoCard ==
    [ id |-> 0, category |-> NoCategory, ease_factor |-> default_ease_factor,
      interval |-> default_interval, repetition_count |-> 0, review_count |-> 0 ]
Threads == 1..NumThreads

NoLocal ==
    [ pc |-> "idle", requests |-> 0, session_id |-> NoSid, quality |-> 0,
      store_ok |-> TRUE, ref |-> 0, ref2 |-> 0, position |-> 0, index |-> 0,
      current_card |-> NoCard,
      review_result |-> NoResult, total |-> 0, status |-> "", error |-> "" ]
NoThreads == [ t \in {} |-> NoLocal ]
NoTally ==
    [ persisted |-> << >>, summaries |-> << >>,
      not_before |-> [ c \in CardIds |-> NoTime ] ]
NoProfile ==
    [ skill_level |-> "beginner", interests |-> << >>, coding_hours_per_week |-> 0,
      preferred_schedule |-> "flexible" ]
NoGroup ==
    [ topic |-> "", skill_level |-> "beginner", current_size |-> 0, max_size |-> 1,
      average_coding_hours |-> 0, preferred_schedule |-> "flexible" ]
NoScores == [ skill |-> 0, interest |-> 0, schedule |-> 0, activity |-> 0, size |-> 0 ]
NoMt == [ calls |-> 0, limit |-> 0, user |-> NoProfile, group |-> NoGroup, score |-> 0,
          scores |-> NoScores ]
NoFm == [ calls |-> 0, requests |-> 0, users |-> << >>, user_id |-> 0,
          groups |-> << >>, limit |-> 0, matches |-> << >> ]
NoSm ==
    [ n |-> 0, limit |-> 0, qualities |-> << >>, first |-> NoCard,
      card |-> NoCard, before |-> NoCard, result |-> NoResult ]

InitManager ==
    /\ now = 0
    /\ nticks = 0
    /\ nstarts = 0
    /\ db = [ c \in CardIds |-> NewFlashcard(c) ]
    /\ review_sessions = << >>
    /\ heap = << >>
    /\ resp = NoResp
    /\ call = NoCall
    /\ audit = << >>
    /\ tally = NoTally

Init ==
    /\ InitManager
    /\ threads = NoThreads
    /\ sm = NoSm
    /\ mt = NoMt
    /\ fm = NoFm

\* ------------------------------------------------------------------------
\* The clock
\* ------------------------------------------------------------------------
TickSteps == {1, SessionTimeout}

Tick(d) ==
    /\ nticks < MaxTicks
    /\ now' = now + d
    /\ nticks' = nticks + 1
    /\ resp' = NoResp
    /\ call' = NoCall
    /\ UNCHANGED <<nstarts, db, review_sessions, heap, audit, threads, tally, sm, mt, fm>>

\* ------------------------------------------------------------------------
\* start_review_session
\* ------------------------------------------------------------------------
SessionId(user_id, t) == <<user_id, t>>

\* The session dictionaries still referenced, by the sessions table or by a
\* request thread's local variable `session` (reference counting).
Referenced(table, thr) ==
    { table[x] : x \in DOMAIN table }
        \cup { thr[t].ref : t \in DOMAIN thr } \cup { thr[t].ref2 : t \in DOMAIN thr }

Collect(objects, table, thr) ==
    [ o \in DOMAIN objects \cap Referenced(table, thr) |-> objects[o] ]

Session(session_id) == heap[review_sessions[session_id]]

\* Variant: without the early return of lines 153-159, a session with an
\* empty card list is stored.
start_review_session_stores_empty(user_id, category, max_cards) ==
    LET session_id == SessionId(user_id, now)
        due_cards == get_due_cards(user_id, category, max_cards, db, now)
    IN  /\ nstarts < MaxStarts
        /\ nstarts' = nstarts + 1
        /\ review_sessions' = (session_id :> (nstarts + 1)) @@ review_sessions
        /\ heap' = Collect(
              ((nstarts + 1) :>
                  [ user_id |-> user_id,
                    start_time |-> now,
                    cards |-> due_cards,
                    current_card_index |-> 0,
                    reviewed_cards |-> << >>,
                    category |-> category,
                    max_cards |-> max_cards ])
              @@ heap, review_sessions', threads)
        /\ audit' = (session_id :> NewAudit(Len(due_cards), now)) @@ audit
        /\ resp' = [ NoResp EXCEPT !.op = "start", !.sid = session_id,
                                   !.total = Len(due_cards),
                                   !.card_ids = CardIdsOf(due_cards) ]
        /\ call' = [ NoCall EXCEPT !.op = "start", !.sid = session_id ]
        /\ UNCHANGED <<now, nticks, db, threads, tally, sm, mt, fm>>

start_review_session(user_id, category, max_cards) ==
    LET session_id == SessionId(user_id, now)
        due_cards == get_due_cards(user_id, category, max_cards, db, now)
    IN  /\ nstarts < MaxStarts
        /\ nstarts' = nstarts + 1
        /\ IF due_cards = << >>
           THEN /\ resp' = [ NoResp EXCEPT !.op = "start", !.sid = session_id ]
                /\ UNCHANGED <<review_sessions, heap, audit>>
           ELSE /\ review_sessions' = (session_id :> (nstarts + 1)) @@ review_sessions
                /\ heap' = Collect(
                      ((nstarts + 1) :>
                          [ user_id |-> user_id,
                            start_time |-> now,
                            cards |-> due_cards,
                            current_card_index |-> 0,
                            reviewed_cards |-> << >>,
                            category |-> category,
                            max_cards |-> max_cards ])
                      @@ heap, review_sessions', threads)
                /\ audit' = (session_id :> NewAudit(Len(due_cards), now)) @@ audit
                /\ resp' = [ NoResp EXCEPT !.op = "start", !.sid = session_id,
                                           !.total = Len(due_cards),
                                           !.card_ids = CardIdsOf(due_cards) ]
        /\ call' = [ NoCall EXCEPT !.op = "start", !.sid = session_id ]
        /\ UNCHANGED <<now, nticks, db, threads, tally, sm, mt, fm>>


\* ------------------------------------------------------------------------
\* _update_card_in_database
\* ------------------------------------------------------------------------
\* store_ok is the card store's answer: FALSE when the row is gone
\* (Flashcard.query.get returns None) or db.session.commit() raises.  Either
\* way the method logs, returns None and raises nothing.
update_card_in_database(table, review_result, t, store_ok) ==
    IF store_ok
    THEN [ table EXCEPT ![review_result.card_id] =
             [ @ EXCEPT !.ease_factor = review_result.new_ease_factor,
                        !.interval = review_result.new_interval,
                        !.repetition_count = review_result.repetitions,
                        !.review_count = review_result.review_count,
                        !.last_reviewed = t,
                        !.next_review = review_result.next_review ] ]
    ELSE table

\* ------------------------------------------------------------------------
\* review_card and _complete_session
\* ------------------------------------------------------------------------
ReviewedEntry(current_card, quality, review_result, t) ==
    [ card_id |-> current_card.id,
      quality |-> quality,
      review_time |-> t,
      new_interval |-> review_result.new_interval,
      new_ease_factor |-> review_result.new_ease_factor ]

\* Variant: the test off by one.
session_complete_one_early(index, cards) == index + 1 >= Len(cards)

\* session["current_card_index"] >= len(session["cards"]): the tests of
\* lines 197 and 223.
session_complete(index, cards) == index >= Len(cards)

\* The sessions table after _complete_session's del.
complete_session_del(sessions, session_id) ==
    [ x \in DOMAIN sessions \ {session_id} |-> sessions[x] ]

\* Variant: the cursor advanced without the append of lines 211-217.
RecordReview_no_log(session, current_card, quality, review_result, t) ==
    [ session EXCEPT !.current_card_index = @ + 1 ]

\* The session dictionary after lines 211-220.
RecordReview(session, current_card, quality, review_result, t) ==
    [ session EXCEPT
        !.reviewed_cards =
            Append(@, ReviewedEntry(current_card, quality, review_result, t)),
        !.current_card_index = @ + 1 ]

\* quality_scores.count(q)
CountQuality(reviewed_cards, q) ==
    Cardinality({ i \in 1..Len(reviewed_cards) : reviewed_cards[i].quality = q })

\* sum(quality_scores)
RECURSIVE SumQuality(_)
SumQuality(reviewed_cards) ==
    IF reviewed_cards = << >> THEN 0
    ELSE reviewed_cards[Len(reviewed_cards)].quality
           + SumQuality(SubSeq(reviewed_cards, 1, Len(reviewed_cards) - 1))

\* round(total / n, 2), in hundredths, 0 for n = 0.  (No quotient of the
\* sums and card counts of the model lies halfway between two hundredths.)
RoundedMean(total, n) ==
    IF n = 0 THEN 0 ELSE (200 * total + n) \div (2 * n)

\* _complete_session's result: the summary and the quality breakdown, both
\* from the qualities in the review log.
CompletedResp(session_id, session) ==
    [ NoResp EXCEPT !.op = "review_card", !.sid = session_id,
                    !.status = "completed",
                    !.total_cards_reviewed = Len(session.reviewed_cards),
                    !.average_quality =
                        RoundedMean(SumQuality(session.reviewed_cards),
                                    Len(session.reviewed_cards)),
                    !.quality_breakdown =
                        [ again |-> CountQuality(session.reviewed_cards, 0),
                          hard |-> CountQuality(session.reviewed_cards, 1),
                          good |-> CountQuality(session.reviewed_cards, 2),
                          easy |-> CountQuality(session.reviewed_cards, 3),
                          perfect |-> CountQuality(session.reviewed_cards, 4) ] ]

ContinueResp(session_id, session) ==
    [ NoResp EXCEPT !.op = "review_card", !.sid = session_id,
                    !.status = "continue",
                    !.current_card = session.cards[session.current_card_index + 1].id,
                    !.completed = session.current_card_index,
                    !.total = Len(session.cards),
                    !.remaining = Len(session.cards) - session.current_card_index ]

\* Variant: the error dictionary returned without its 'error' entry.
ErrorResp_silent(op, session_id, error) ==
    [ NoResp EXCEPT !.op = op, !.sid = session_id ]

ErrorResp(op, session_id, error) ==
    [ NoResp EXCEPT !.op = op, !.sid = session_id, !.error = error ]

\* The sum of the qualities calculate_next_review applied to the inputs of
\* the reviews logged so far (line 65 of each call).
RECURSIVE AppliedSum(_)
AppliedSum(reviewed_cards) ==
    IF reviewed_cards = << >> THEN 0
    ELSE ValidateQuality(reviewed_cards[Len(reviewed_cards)].quality)
           + AppliedSum(SubSeq(reviewed_cards, 1, Len(reviewed_cards) - 1))

CallOf(op, session_id) ==
    [ NoCall EXCEPT !.op = op, !.sid = session_id,
                    !.stored = session_id \in DOMAIN review_sessions,
                    !.expired = Expired(session_id, now),
                    !.finished = session_id \in DOMAIN audit /\ audit[session_id].finished,
                    !.n = IF session_id \in DOMAIN audit THEN audit[session_id].n ELSE 0,
                    !.nth = IF session_id \in DOMAIN audit
                            THEN Min2(audit[session_id].calls + 1,
                                      audit[session_id].n + 1)
                            ELSE 0,
                    !.clean = session_id \in DOMAIN audit /\ ~audit[session_id].rejected ]

CountCall(session_id) ==
    IF session_id \in DOMAIN audit
    THEN [ audit EXCEPT ![session_id].calls = Min2(@ + 1, audit[session_id].n + 1) ]
    ELSE audit

review_card_request(session_id, quality, store_ok) ==
    IF session_id \notin DOMAIN review_sessions
    THEN /\ resp' = ErrorResp("review_card", session_id, SessionNotFound)
         /\ call' = CallOf("review_card", session_id)
         /\ audit' = CountCall(session_id)
         /\ UNCHANGED <<db, review_sessions, heap>>
    ELSE
    LET ref == review_sessions[session_id]
        session == heap[ref]
        index == session.current_card_index
    IN  IF session_complete(index, session.cards)
        THEN /\ resp' = ErrorResp("review_card", session_id, SessionExhausted)
             /\ call' = CallOf("review_card", session_id)
             /\ audit' = CountCall(session_id)
             /\ UNCHANGED <<db, review_sessions, heap>>
        ELSE
        LET current_card == session.cards[index + 1]
            review_result == calculate_next_review(current_card, quality, now)
            table == update_card_in_database(db, review_result, now, store_ok)
            after == RecordReview(session, current_card, quality, review_result, now)
            done == session_complete(after.current_card_index, after.cards)
        IN  /\ db' = table
            /\ review_sessions' =
                   IF done
                   THEN complete_session_del(review_sessions, session_id)
                   ELSE review_sessions
            /\ heap' = Collect([ heap EXCEPT ![ref] = after ],
                               review_sessions', threads)
            /\ resp' = IF done THEN CompletedResp(session_id, after)
                               ELSE ContinueResp(session_id, after)
            /\ call' = [ CallOf("review_card", session_id) EXCEPT
                           !.applied = TRUE,
                           !.store_ok = store_ok,
                           !.position = index + 1,
                           !.card_id = current_card.id,
                           !.clean = @ /\ store_ok,
                           !.index_before = index,
                           !.index_after = after.current_card_index,
                           !.log_before = Len(session.reviewed_cards),
                           !.log_after = Len(after.reviewed_cards),
                           !.review_count_before = db[current_card.id].review_count,
                           !.review_count_after = table[current_card.id].review_count,
                           !.applied_sum =
                               AppliedSum(session.reviewed_cards) + review_result.quality,
                           !.result = review_result ]
            /\ audit' = [ CountCall(session_id) EXCEPT
                            ![session_id].rejected = @ \/ ~store_ok,
                            ![session_id].last_activity = now,
                            ![session_id].last_position = index + 1,
                            ![session_id].finished = done ]

review_card(session_id, quality, store_ok) ==
    /\ review_card_request(session_id, quality, store_ok)
    /\ UNCHANGED <<now, nticks, nstarts, threads, tally, sm, mt, fm>>

\* ------------------------------------------------------------------------
\* get_session_progress
\* ------------------------------------------------------------------------
\* Variant: the card in hand counted as completed.
get_session_progress_counts_current(session_id) ==
    /\ IF session_id \notin DOMAIN review_sessions
       THEN resp' = ErrorResp("progress", session_id, SessionNotFound)
       ELSE LET session == Session(session_id)
            IN  resp' = [ NoResp EXCEPT
                            !.op = "progress", !.sid = session_id,
                            !.completed = session.current_card_index + 1,
                            !.total = Len(session.cards),
                            !.remaining = Len(session.cards) - session.current_card_index,
                            !.start_time = session.start_time,
                            !.duration = now - session.start_time,
                            !.category = session.category ]
    /\ call' = CallOf("progress", session_id)
    /\ UNCHANGED <<now, nticks, nstarts, db, review_sessions, heap, audit, threads, tally, sm, mt, fm>>

\* duration_minutes is the time since start_time (here in seconds).
get_session_progress(session_id) ==
    /\ IF session_id \notin DOMAIN review_sessions
       THEN resp' = ErrorResp("progress", session_id, SessionNotFound)
       ELSE LET session == Session(session_id)
            IN  resp' = [ NoResp EXCEPT
                            !.op = "progress", !.sid = session_id,
                            !.completed = session.current_card_index,
                            !.total = Len(session.cards),
                            !.remaining = Len(session.cards) - session.current_card_index,
                            !.start_time = session.start_time,
                            !.duration = now - session.start_time,
                            !.category = session.category ]
    /\ call' = CallOf("progress", session_id)
    /\ UNCHANGED <<now, nticks, nstarts, db, review_sessions, heap, audit, threads, tally, sm, mt, fm>>

\* ------------------------------------------------------------------------
\* cleanup_expired_sessions
\* ------------------------------------------------------------------------
expired_sessions(sessions, objects, current_time) ==
    { x \in DOMAIN sessions :
         current_time - objects[sessions[x]].start_time > SessionTimeout }

cleanup_expired_sessions ==
    LET gone == expired_sessions(review_sessions, heap, now)
    IN  /\ review_sessions' = [ x \in DOMAIN review_sessions \ gone |-> review_sessions[x] ]
        /\ heap' = Collect(heap, review_sessions', threads)
        /\ resp' = [ NoResp EXCEPT !.op = "cleanup", !.total = Cardinality(gone) ]
        /\ call' = [ NoCall EXCEPT !.op = "cleanup" ]
        /\ UNCHANGED <<now, nticks, nstarts, db, audit, threads, tally, sm, mt, fm>>

\* ------------------------------------------------------------------------
\* The manager under sequential requests
\* ------------------------------------------------------------------------
ReviewQualities == {4, 4 + OutOfRange}
CategoryInputs == {NoCategory, "algorithms"}
MaxCardsInputs == {RouteMaxCards}
SessionIdInputs == DOMAIN audit \cup {NoSid}

Next ==
    \/ \E d \in TickSteps : Tick(d)
    \/ \E u \in Users, cat \in CategoryInputs, m \in MaxCardsInputs :
          start_review_session(u, cat, m)
    \/ \E x \in SessionIdInputs, q \in ReviewQualities, ok \in BOOLEAN :
          review_card(x, q, ok)
    \/ \E x \in SessionIdInputs : get_session_progress(x)
    \/ cleanup_expired_sessions

Spec == Init /\ [][Next]_vars

\* ------------------------------------------------------------------------
\* The running application
\* ------------------------------------------------------------------------
\* The manager's methods that the application calls are
\* start_review_session and review_card (the two routes of routes.py);
\* nothing in the application calls cleanup_expired_sessions, and there is
\* no timer or background thread for the sessions.  The clock advances by
\* itself; requests come when users send them, so only the clock is fair.
NextApp ==
    \/ \E d \in TickSteps : Tick(d)
    \/ \E u \in Users, cat \in CategoryInputs, m \in MaxCardsInputs :
          start_review_session(u, cat, m)
    \/ \E x \in SessionIdInputs, q \in ReviewQualities, ok \in BOOLEAN :
          review_card(x, q, ok)

SpecApp == Init /\ [][NextApp]_vars /\ WF_vars(\E d \in TickSteps : Tick(d))


\* ------------------------------------------------------------------------
\* review_card run by request threads (the server runs threaded=True)
\* ------------------------------------------------------------------------
\* Each thread runs review_card one statement at a time; the interpreter
\* may switch threads between any two of them.  `ref` is the thread's local
\* variable `session`: a reference to the dictionary, which stays usable
\* after another thread has deleted it from the sessions table.

\* The request ends: what review_card returns (or the route, for an
\* exception raised outside review_card's try block).
Returned(local, status, error) ==
    [ local EXCEPT !.pc = "done", !.status = status, !.error = error,
                   !.ref = 0, !.ref2 = 0 ]

Count(f, k) == IF k \in DOMAIN f THEN f[k] ELSE 0
Bump(f, k) == (k :> (Count(f, k) + 1)) @@ f

\* Line 192: the membership test.
T_Request(t, session_id, quality, store_ok) ==
    /\ threads[t].pc \in {"idle", "done"}
    /\ threads[t].requests < MaxRequests
    /\ LET local == [ NoLocal EXCEPT !.requests = threads[t].requests + 1,
                                     !.session_id = session_id,
                                     !.quality = quality,
                                     !.store_ok = store_ok ]
       IN  threads' = [ threads EXCEPT ![t] =
                          IF session_id \notin DOMAIN review_sessions
                          THEN Returned(local, "", SessionNotFound)
                          ELSE [ local EXCEPT !.pc = "lookup" ] ]
    /\ UNCHANGED <<now, nticks, nstarts, db, review_sessions, heap, resp, call, audit, tally, sm, mt, fm>>

\* Line 195: session = self.review_sessions[session_id]; a KeyError here is
\* outside the try block and reaches the route's handler.
T_Lookup(t) ==
    /\ threads[t].pc = "lookup"
    /\ threads' = [ threads EXCEPT ![t] =
                      IF threads[t].session_id \in DOMAIN review_sessions
                      THEN [ @ EXCEPT !.pc = "bounds",
                                      !.ref = review_sessions[threads[t].session_id] ]
                      ELSE Returned(@, "", "KeyError") ]
    /\ UNCHANGED <<now, nticks, nstarts, db, review_sessions, heap, resp, call, audit, tally, sm, mt, fm>>

\* Line 197: the exhaustion test.
T_Bounds(t) ==
    /\ threads[t].pc = "bounds"
    /\ LET session == heap[threads[t].ref]
       IN  threads' = [ threads EXCEPT ![t] =
                          IF session_complete(session.current_card_index, session.cards)
                          THEN Returned(@, "", SessionExhausted)
                          ELSE [ @ EXCEPT !.pc = "fetch" ] ]
    /\ heap' = Collect(heap, review_sessions, threads')
    /\ UNCHANGED <<now, nticks, nstarts, db, review_sessions, resp, call, audit, tally, sm, mt, fm>>

\* Line 202: current_card = session["cards"][session["current_card_index"]];
\* an IndexError is caught at line 245 and returned as an error.
T_Fetch(t) ==
    /\ threads[t].pc = "fetch"
    /\ LET session == heap[threads[t].ref]
           index == session.current_card_index
       IN  threads' = [ threads EXCEPT ![t] =
                          IF index >= Len(session.cards)
                          THEN Returned(@, "", "IndexError")
                          ELSE [ @ EXCEPT !.pc = "persist",
                                          !.position = index + 1,
                                          !.current_card = session.cards[index + 1] ] ]
    /\ heap' = Collect(heap, review_sessions, threads')
    /\ UNCHANGED <<now, nticks, nstarts, db, review_sessions, resp, call, audit, tally, sm, mt, fm>>

\* Lines 205-208: the scheduler, then the write to the card store.
T_Persist(t) ==
    /\ threads[t].pc = "persist"
    /\ LET local == threads[t]
           review_result == calculate_next_review(local.current_card, local.quality, now)
       IN  /\ db' = update_card_in_database(db, review_result, now, local.store_ok)
           /\ threads' = [ threads EXCEPT ![t] =
                             [ @ EXCEPT !.pc = "record", !.review_result = review_result ] ]
           /\ tally' = IF local.store_ok
                       THEN [ tally EXCEPT !.persisted =
                                Bump(@, <<local.ref, local.position>>) ]
                       ELSE tally
    /\ UNCHANGED <<now, nticks, nstarts, review_sessions, heap, resp, call, audit, sm, mt, fm>>

\* Lines 211-217: session["reviewed_cards"].append(...).
T_Record(t) ==
    /\ threads[t].pc = "record"
    /\ LET local == threads[t]
       IN  heap' = [ heap EXCEPT ![local.ref].reviewed_cards =
                       Append(@, ReviewedEntry(local.current_card, local.quality,
                                               local.review_result, now)) ]
    /\ threads' = [ threads EXCEPT ![t].pc = "load_index" ]
    /\ UNCHANGED <<now, nticks, nstarts, db, review_sessions, resp, call, audit, tally, sm, mt, fm>>

\* Line 220, session["current_card_index"] += 1: the read ...
T_LoadIndex(t) ==
    /\ threads[t].pc = "load_index"
    /\ threads' = [ threads EXCEPT ![t] =
                      [ @ EXCEPT !.pc = "store_index",
                                 !.index = heap[threads[t].ref].current_card_index ] ]
    /\ UNCHANGED <<now, nticks, nstarts, db, review_sessions, heap, resp, call, audit, tally, sm, mt, fm>>

\* ... and the write.
T_StoreIndex(t) ==
    /\ threads[t].pc = "store_index"
    /\ heap' = [ heap EXCEPT ![threads[t].ref].current_card_index = threads[t].index + 1 ]
    /\ threads' = [ threads EXCEPT ![t].pc = "check_complete" ]
    /\ UNCHANGED <<now, nticks, nstarts, db, review_sessions, resp, call, audit, tally, sm, mt, fm>>

\* Line 223: the completion test.
T_CheckComplete(t) ==
    /\ threads[t].pc = "check_complete"
    /\ LET session == heap[threads[t].ref]
       IN  threads' = [ threads EXCEPT ![t].pc =
                          IF session_complete(session.current_card_index, session.cards)
                          THEN "complete_lookup" ELSE "next_card" ]
    /\ UNCHANGED <<now, nticks, nstarts, db, review_sessions, heap, resp, call, audit, tally, sm, mt, fm>>

\* Lines 227-243: next_card = session["cards"][...], the 'continue' result.
T_NextCard(t) ==
    /\ threads[t].pc = "next_card"
    /\ LET session == heap[threads[t].ref]
       IN  threads' = [ threads EXCEPT ![t] =
                          IF session.current_card_index >= Len(session.cards)
                          THEN Returned(@, "", "IndexError")
                          ELSE Returned(@, "continue", "") ]
    /\ heap' = Collect(heap, review_sessions, threads')
    /\ UNCHANGED <<now, nticks, nstarts, db, review_sessions, resp, call, audit, tally, sm, mt, fm>>

\* _complete_session, lines 438-446: session = self.review_sessions[...]
\* (a KeyError is caught at line 245) and the statistics.
T_CompleteLookup(t) ==
    /\ threads[t].pc = "complete_lookup"
    /\ LET session_id == threads[t].session_id
       IN  threads' = [ threads EXCEPT ![t] =
                          IF session_id \notin DOMAIN review_sessions
                          THEN Returned(@, "", "KeyError")
                          ELSE [ @ EXCEPT
                                   !.pc = "complete_del",
                                   !.ref2 = review_sessions[session_id],
                                   !.total = Len(Session(session_id).reviewed_cards) ] ]
    /\ heap' = Collect(heap, review_sessions, threads')
    /\ UNCHANGED <<now, nticks, nstarts, db, review_sessions, resp, call, audit, tally, sm, mt, fm>>

\* _complete_session, lines 449-471: the del and the summary.
T_CompleteDel(t) ==
    /\ threads[t].pc = "complete_del"
    /\ LET session_id == threads[t].session_id
       IN  IF session_id \notin DOMAIN review_sessions
           THEN /\ threads' = [ threads EXCEPT ![t] = Returned(@, "", "KeyError") ]
                /\ UNCHANGED <<review_sessions, tally>>
           ELSE /\ threads' = [ threads EXCEPT ![t] = Returned(@, "completed", "") ]
                /\ review_sessions' = complete_session_del(review_sessions, session_id)
                /\ tally' = [ tally EXCEPT !.summaries = Bump(@, threads[t].ref2) ]
    /\ heap' = Collect(heap, review_sessions', threads')
    /\ UNCHANGED <<now, nticks, nstarts, db, resp, call, audit, sm, mt, fm>>

NextThreaded ==
    \/ \E u \in Users, cat \in CategoryInputs, m \in MaxCardsInputs :
          start_review_session(u, cat, m)
    \/ \E t \in Threads, x \in SessionIdInputs, q \in ReviewQualities, ok \in BOOLEAN :
          T_Request(t, x, q, ok)
    \/ \E t \in Threads :
          \/ T_Lookup(t)
          \/ T_Bounds(t)
          \/ T_Fetch(t)
          \/ T_Persist(t)
          \/ T_Record(t)
          \/ T_LoadIndex(t)
          \/ T_StoreIndex(t)
          \/ T_CheckComplete(t)
          \/ T_NextCard(t)
          \/ T_CompleteLookup(t)
          \/ T_CompleteDel(t)

InitThreaded ==
    /\ InitManager
    /\ threads = [ t \in Threads |-> NoLocal ]
    /\ sm = NoSm
    /\ mt = NoMt
    /\ fm = NoFm

SpecThreaded == InitThreaded /\ [][NextThreaded]_vars

\* ------------------------------------------------------------------------
\* start_review_session over a flashcards table with any mix of rows
\* ------------------------------------------------------------------------
\* A user other than the requesting ones, who also owns cards.
OtherUser == NumUsers + 1

DueClock == 2 * SecondsPerDay
DueReviewTimes == {0, SecondsPerDay, 2 * SecondsPerDay}
DueQualities == {0, 4}
DueMaxCards == {1, RouteMaxCards}

\* A row never reviewed, or reviewed once (at time t with quality q) and
\* stored: next_review is a day before, at, or a day after DueClock.
ReviewedOnce(row, q, t) ==
    LET table == (1 :> row)
    IN  update_card_in_database(
            table, calculate_next_review(CardDict(1, table), q, t), t, TRUE)[1]

DueRows ==
    LET fresh == { [ NewFlashcard(1) EXCEPT !.user_id = u, !.category = cat ] :
                   u \in Users \cup {OtherUser}, cat \in Categories }
    IN  fresh \cup { ReviewedOnce(row, q, t) :
                     row \in fresh, q \in DueQualities, t \in DueReviewTimes }

InitDue ==
    /\ now = DueClock
    /\ nticks = 0
    /\ nstarts = MaxStarts - 1
    /\ db \in [ CardIds -> DueRows ]
    /\ review_sessions = << >>
    /\ heap = << >>
    /\ resp = NoResp
    /\ call = NoCall
    /\ audit = << >>
    /\ tally = NoTally
    /\ threads = NoThreads
    /\ sm = NoSm
    /\ mt = NoMt
    /\ fm = NoFm

NextDue ==
    \E u \in Users, cat \in CategoryInputs, m \in DueMaxCards :
       start_review_session(u, cat, m)

SpecDue == InitDue /\ [][NextDue]_vars

\* ------------------------------------------------------------------------
\* Reviews of cards that have been reviewed before, the clock passing days
\* ------------------------------------------------------------------------
StoredQualities == {0, 4}
DaySteps == {1, SecondsPerDay}

\* A card's row: never reviewed, or reviewed once with quality 4 a day
\* before DueClock, so that it is due again at DueClock.
StoredRows(c) ==
    { NewFlashcard(c), ReviewedOnce(NewFlashcard(c), 4, DueClock - SecondsPerDay) }

\* review_card, with the history of what the stored reviews scheduled:
\* tally.not_before[c] is the latest next_review a stored review of card c
\* has computed (review time + new interval days).
ReviewNoted(session_id, quality, store_ok) ==
    /\ review_card_request(session_id, quality, store_ok)
    /\ tally' = IF call'.applied /\ call'.store_ok
                THEN [ tally EXCEPT !.not_before[call'.card_id] =
                                       Max2(@, call'.result.next_review) ]
                ELSE tally
    /\ UNCHANGED <<now, nticks, nstarts, threads, sm, mt, fm>>

InitStored ==
    /\ now = DueClock
    /\ nticks = 0
    /\ nstarts = 0
    /\ db \in { table \in [ CardIds -> UNION { StoredRows(c) : c \in CardIds } ] :
                   \A c \in CardIds : table[c] \in StoredRows(c) }
    /\ review_sessions = << >>
    /\ heap = << >>
    /\ resp = NoResp
    /\ call = NoCall
    /\ audit = << >>
    /\ tally = NoTally
    /\ threads = NoThreads
    /\ sm = NoSm
    /\ mt = NoMt
    /\ fm = NoFm

NextStored ==
    \/ \E d \in DaySteps : Tick(d)
    \/ \E u \in Users, m \in MaxCardsInputs : start_review_session(u, NoCategory, m)
    \/ \E x \in DOMAIN audit, q \in StoredQualities, ok \in BOOLEAN :
          ReviewNoted(x, q, ok)

SpecStored == InitStored /\ [][NextStored]_vars

\* ------------------------------------------------------------------------
\* StudyGroupMatcher (services/study_group_matcher.py)
\* ------------------------------------------------------------------------
\* Sub-scores are in tenths (0.7 is 7), weights in hundredths (0.25 is 25),
\* the compatibility score in thousandths (0.97 is 970).  The code adds the
\* five products as doubles; the sum it returns is within one unit in the
\* last place of the exact value computed here.
FullScore == 1000
skill_weight == 40
interest_weight == 25
schedule_weight == 15
activity_weight == 10
size_weight == 10

skill_levels == <<"beginner", "intermediate", "advanced">>

topic_similarity_matrix ==
    [ algorithms |-> <<"data_structures", "problem_solving", "competitive_programming">>,
      data_structures |-> <<"algorithms", "problem_solving", "interview_prep">>,
      system_design |-> <<"architecture", "scalability", "distributed_systems">>,
      web_development |-> <<"frontend", "backend", "full_stack">>,
      mobile_development |-> <<"ios", "android", "react_native">>,
      machine_learning |-> <<"ai", "data_science", "deep_learning">>,
      competitive_programming |-> <<"algorithms", "data_structures", "problem_solving">>,
      interview_preparation |-> <<"algorithms", "data_structures", "system_design">> ]

schedule_groups ==
    [ morning |-> <<"morning", "early_morning">>,
      afternoon |-> <<"afternoon", "lunch_time">>,
      evening |-> <<"evening", "night">>,
      weekend |-> <<"weekend", "saturday", "sunday">> ]

\* x in list
InList(x, list) == \E i \in 1..Len(list) : list[i] = x

\* list.index(x), from 0; the caller has x in the list.
IndexOf(x, list) == (CHOOSE i \in 1..Len(list) : list[i] = x) - 1

Abs(n) == IF n < 0 THEN 0 - n ELSE n

\* sub in text, for strings
Contains(text, sub) ==
    \E i \in 1..(Len(text) - Len(sub) + 1) : SubSeq(text, i, i + Len(sub) - 1) = sub

\* str.lower()
UpperCase == "ABCDEFGHIJKLMNOPQRSTUVWXYZ"
LowerCase == "abcdefghijklmnopqrstuvwxyz"
LowerChar(ch) ==
    IF \E i \in 1..Len(UpperCase) : SubSeq(UpperCase, i, i) = ch
    THEN LET i == CHOOSE i \in 1..Len(UpperCase) : SubSeq(UpperCase, i, i) = ch
         IN  SubSeq(LowerCase, i, i)
    ELSE ch

RECURSIVE Lower(_)
Lower(text) ==
    IF Len(text) = 0 THEN text
    ELSE LowerChar(SubSeq(text, 1, 1)) \o Lower(SubSeq(text, 2, Len(text)))

\* _calculate_skill_compatibility, for skills of skill_levels.  The two
\* indexes differ by 0, 1 or 2, so the code after line 329 (the member
\* distribution) is not reached.
calculate_skill_compatibility(user_skill, group_skill) ==
    IF user_skill = group_skill THEN 10
    ELSE LET user_index == IndexOf(user_skill, skill_levels)
             group_index == IndexOf(group_skill, skill_levels)
         IN  IF Abs(user_index - group_index) = 1 THEN 7 ELSE 3

calculate_interest_compatibility(user_interests, group_topic) ==
    LET topic == Lower(group_topic)
        interests == [ i \in 1..Len(user_interests) |-> Lower(user_interests[i]) ]
        related_topics == IF topic \in DOMAIN topic_similarity_matrix
                          THEN topic_similarity_matrix[topic] ELSE << >>
    IN  IF user_interests = << >> THEN 5
        ELSE IF InList(topic, interests) THEN 10
        ELSE IF \E i \in 1..Len(interests), r \in 1..Len(related_topics) :
                   Contains(interests[i], related_topics[r]) THEN 8
        ELSE IF \E i \in 1..Len(interests) :
                   Contains(interests[i], topic) \/ Contains(topic, interests[i]) THEN 6
        ELSE 3

calculate_schedule_compatibility(user_schedule, group_schedule) ==
    IF user_schedule = "flexible" \/ group_schedule = "flexible" THEN 8
    ELSE IF user_schedule = group_schedule THEN 10
    ELSE IF \E g \in DOMAIN schedule_groups :
               /\ InList(user_schedule, schedule_groups[g])
               /\ InList(group_schedule, schedule_groups[g]) THEN 7
    ELSE 4

\* ratio = user_hours / group_avg_hours against 0.7, 1.5, 0.5, 2.0, 0.3, 3.0:
\* compared exactly, both sides multiplied by 10 * group_avg_hours (> 0).
calculate_activity_compatibility(user_hours, group_avg_hours) ==
    IF group_avg_hours = 0 THEN 5
    ELSE LET u == 10 * user_hours
             g == group_avg_hours
         IN  IF 7 * g <= u /\ u <= 15 * g THEN 10
             ELSE IF 5 * g <= u /\ u <= 20 * g THEN 8
             ELSE IF 3 * g <= u /\ u <= 30 * g THEN 6
             ELSE 3

\* fill_ratio = current_size / max_size (max_size > 0), compared exactly.
calculate_size_compatibility(current_size, max_size) ==
    LET c == 10 * current_size
        m == max_size
    IN  IF 3 * m <= c /\ c <= 7 * m THEN 10
        ELSE IF 2 * m <= c /\ c <= 8 * m THEN 8
        ELSE IF m <= c /\ c <= 9 * m THEN 6
        ELSE 3

\* Variant: the interest and the schedule weight exchanged.
total_score_weights_exchanged(user_profile, group_profile) ==
      calculate_skill_compatibility(
          user_profile.skill_level, group_profile.skill_level) * skill_weight
    + calculate_interest_compatibility(
          user_profile.interests, group_profile.topic) * schedule_weight
    + calculate_schedule_compatibility(
          user_profile.preferred_schedule, group_profile.preferred_schedule)
          * interest_weight
    + calculate_activity_compatibility(
          user_profile.coding_hours_per_week, group_profile.average_coding_hours)
          * activity_weight
    + calculate_size_compatibility(
          group_profile.current_size, group_profile.max_size) * size_weight

\* Line 303: the weighted sum.
total_score(user_profile, group_profile) ==
      calculate_skill_compatibility(
          user_profile.skill_level, group_profile.skill_level) * skill_weight
    + calculate_interest_compatibility(
          user_profile.interests, group_profile.topic) * interest_weight
    + calculate_schedule_compatibility(
          user_profile.preferred_schedule, group_profile.preferred_schedule)
          * schedule_weight
    + calculate_activity_compatibility(
          user_profile.coding_hours_per_week, group_profile.average_coding_hours)
          * activity_weight
    + calculate_size_compatibility(
          group_profile.current_size, group_profile.max_size) * size_weight

\* Variant: the five sub-scores added up, not weighted and not clamped.
calculate_compatibility_plain_sum(user_profile, group_profile) ==
    100 * ( calculate_skill_compatibility(
                user_profile.skill_level, group_profile.skill_level)
          + calculate_interest_compatibility(
                user_profile.interests, group_profile.topic)
          + calculate_schedule_compatibility(
                user_profile.preferred_schedule, group_profile.preferred_schedule)
          + calculate_activity_compatibility(
                user_profile.coding_hours_per_week, group_profile.average_coding_hours)
          + calculate_size_compatibility(
                group_profile.current_size, group_profile.max_size) )

\* _calculate_compatibility: min(1.0, max(0.0, total_score)).
calculate_compatibility(user_profile, group_profile) ==
    Min2(FullScore, Max2(0, total_score(user_profile, group_profile)))

\* Lines 264-300: the five sub-scores _calculate_compatibility computes.
sub_scores(user_profile, group_profile) ==
    [ skill |-> calculate_skill_compatibility(
                    user_profile.skill_level, group_profile.skill_level),
      interest |-> calculate_interest_compatibility(
                       user_profile.interests, group_profile.topic),
      schedule |-> calculate_schedule_compatibility(
                       user_profile.preferred_schedule,
                       group_profile.preferred_schedule),
      activity |-> calculate_activity_compatibility(
                       user_profile.coding_hours_per_week,
                       group_profile.average_coding_hours),
      size |-> calculate_size_compatibility(
                   group_profile.current_size, group_profile.max_size) ]

\* The profiles of the exact-match example: an intermediate user interested
\* in algorithms, 10 hours a week, flexible; an intermediate group on
\* algorithms, 4 of 10 members, 10 hours on average, flexible.
ExampleUser ==
    [ skill_level |-> "intermediate", interests |-> <<"algorithms">>,
      coding_hours_per_week |-> 10, preferred_schedule |-> "flexible" ]

ExampleGroup ==
    [ topic |-> "algorithms", skill_level |-> "intermediate", current_size |-> 4,
      max_size |-> 10, average_coding_hours |-> 10, preferred_schedule |-> "flexible" ]

\* The profiles the matcher is applied to.
InterestTags == {"algorithms", "system_design"}
Topics == {"algorithms", "data_structures", "Design", "scalability"}
UserSchedules == {"flexible", "morning", "early_morning", "evening"}
GroupSchedules == {"flexible", "morning"}
UserHours == {2, 3, 5, 10}
GroupAverageHours == {0, 10}

RECURSIVE ListsOver(_, _)
ListsOver(tags, n) ==
    IF n = 0 THEN { << >> }
    ELSE LET shorter == ListsOver(tags, n - 1)
         IN  shorter \cup { Append(l, t) : l \in shorter, t \in tags }

UserProfiles ==
    { [ skill_level |-> skill_levels[k], interests |-> l,
        coding_hours_per_week |-> h, preferred_schedule |-> sch ] :
      k \in 1..Len(skill_levels), l \in ListsOver(InterestTags, MaxInterests),
      h \in UserHours, sch \in UserSchedules }

GroupProfiles ==
    { [ topic |-> t, skill_level |-> skill_levels[k], current_size |-> c,
        max_size |-> m, average_coding_hours |-> a, preferred_schedule |-> sch ] :
      t \in Topics, k \in 1..Len(skill_levels), c \in 0..MaxGroupSize,
      m \in {MaxGroupSize}, a \in GroupAverageHours, sch \in GroupSchedules }

Match ==
    /\ mt.calls < mt.limit
    /\ mt' = [ mt EXCEPT !.calls = @ + 1,
                         !.score = calculate_compatibility(mt.user, mt.group),
                         !.scores = sub_scores(mt.user, mt.group) ]
    /\ UNCHANGED <<now, nticks, nstarts, db, review_sessions, heap, resp, call, audit, threads, tally, sm, fm>>

NextMatch == Match

InitMatch ==
    /\ InitManager
    /\ threads = NoThreads
    /\ sm = NoSm
    /\ mt \in { [ NoMt EXCEPT !.limit = 1, !.user = u, !.group = g ] :
                 u \in UserProfiles, g \in GroupProfiles }
    /\ fm = NoFm

SpecMatch == InitMatch /\ [][NextMatch]_vars

\* ------------------------------------------------------------------------
\* find_best_matches
\* ------------------------------------------------------------------------
\* A row of the study-groups table is
\*   [ id, is_active, topic, skill_level, members, max_members, member_hours ]
\* where members is len(group.members) and member_hours the weekly coding
\* hours of each member's profile (the members of one group alike).

\* The threshold of line 84, in thousandths.
min_compatibility == 300

\* The default of the limit parameter.
default_limit == 5

\* _get_available_study_groups: the active groups with a free place, in
\* table order.
RECURSIVE get_available_study_groups(_)
get_available_study_groups(groups) ==
    IF groups = << >> THEN << >>
    ELSE LET group == groups[Len(groups)]
             earlier == get_available_study_groups(SubSeq(groups, 1, Len(groups) - 1))
         IN  IF group.is_active /\ group.members < group.max_members
             THEN Append(earlier,
                         [ id |-> group.id, topic |-> group.topic,
                           skill_level |-> group.skill_level,
                           current_size |-> group.members,
                           max_size |-> group.max_members,
                           members |-> group.members,
                           member_hours |-> group.member_hours ])
             ELSE earlier

\* _get_group_profile: average_coding_hours = total / max(member_count, 1);
\* the schedule is always 'flexible'.
get_group_profile(group_data) ==
    [ group_id |-> group_data.id,
      topic |-> group_data.topic,
      skill_level |-> group_data.skill_level,
      current_size |-> group_data.current_size,
      max_size |-> group_data.max_size,
      average_coding_hours |->
          (group_data.members * group_data.member_hours)
              \div Max2(group_data.members, 1),
      preferred_schedule |-> "flexible" ]

\* _calculate_compatibility with its except branch (lines 307-309): a skill
\* level that is not in skill_levels makes list.index raise, unless the two
\* levels are equal, and the score is then 0.0.
calculate_compatibility_or_zero(user_profile, group_profile) ==
    IF /\ user_profile.skill_level # group_profile.skill_level
       /\ \/ ~InList(user_profile.skill_level, skill_levels)
          \/ ~InList(group_profile.skill_level, skill_levels)
    THEN 0
    ELSE calculate_compatibility(user_profile, group_profile)

\* The dictionary appended at lines 85-95 (name, match_reasons and
\* activity_level, which no decision reads, left out).
MatchOf(group_profile, compatibility_score) ==
    [ group_id |-> group_profile.group_id,
      topic |-> group_profile.topic,
      skill_level |-> group_profile.skill_level,
      current_size |-> group_profile.current_size,
      max_size |-> group_profile.max_size,
      compatibility_score |-> compatibility_score ]

\* Lines 76-95: the loop over the available groups.
RECURSIVE ScoredMatches(_, _)
ScoredMatches(user_profile, available_groups) ==
    IF available_groups = << >> THEN << >>
    ELSE LET n == Len(available_groups)
             earlier == ScoredMatches(user_profile, SubSeq(available_groups, 1, n - 1))
             group_profile == get_group_profile(available_groups[n])
             compatibility_score ==
                 calculate_compatibility_or_zero(user_profile, group_profile)
         IN  IF compatibility_score > min_compatibility
             THEN Append(earlier, MatchOf(group_profile, compatibility_score))
             ELSE earlier

\* matches.sort(key=compatibility_score, reverse=True): stable, so equal
\* scores keep the order of the loop.
RECURSIVE InsertByScore(_, _)
InsertByScore(x, sorted) ==
    IF sorted = << >> THEN <<x>>
    ELSE IF sorted[Len(sorted)].compatibility_score >= x.compatibility_score
         THEN Append(sorted, x)
         ELSE Append(InsertByScore(x, SubSeq(sorted, 1, Len(sorted) - 1)),
                     sorted[Len(sorted)])

RECURSIVE SortByScore(_)
SortByScore(s) ==
    IF s = << >> THEN << >>
    ELSE InsertByScore(s[Len(s)], SortByScore(SubSeq(s, 1, Len(s) - 1)))

\* Variant: the slice taken before the sort.
find_best_matches_truncate_first(users, user_id, groups, limit) ==
    IF user_id \notin DOMAIN users THEN << >>
    ELSE LET matches == ScoredMatches(users[user_id],
                                      get_available_study_groups(groups))
         IN  SortByScore(SubSeq(matches, 1, Min2(limit, Len(matches))))

\* find_best_matches(user_id, limit), for limit >= 0; users is what
\* _get_user_profile finds: user id -> profile.
find_best_matches(users, user_id, groups, limit) ==
    IF user_id \notin DOMAIN users THEN << >>
    ELSE LET matches == SortByScore(
                            ScoredMatches(users[user_id],
                                          get_available_study_groups(groups)))
         IN  SubSeq(matches, 1, Min2(limit, Len(matches)))

FindBestMatches ==
    /\ fm.calls < fm.requests
    /\ fm' = [ fm EXCEPT !.calls = @ + 1,
                         !.matches = find_best_matches(fm.users, fm.user_id,
                                                       fm.groups, fm.limit) ]
    /\ UNCHANGED <<now, nticks, nstarts, db, review_sessions, heap, resp, call, audit, threads, tally, sm, mt>>

NextFind == FindBestMatches

\* The tables find_best_matches is applied to.
FindTopics == {"algorithms", "Design"}
FindSkills == {"intermediate", "expert"}
FindUserIds == {1, OtherUser}
FindLimits == {1, default_limit}

\* <<is_active, members>> of a row: open, full, inactive.
FindStates == { <<TRUE, 1>>, <<TRUE, 2>>, <<FALSE, 1>> }

GroupRows(id) ==
    { [ id |-> id, is_active |-> a[1], topic |-> t, skill_level |-> k,
        members |-> a[2], max_members |-> 2, member_hours |-> 10 ] :
      a \in FindStates, t \in FindTopics, k \in FindSkills }

GroupTables ==
    { g \in [ 1..NumGroups -> UNION { GroupRows(i) : i \in 1..NumGroups } ] :
         \A i \in 1..NumGroups : g[i].id = i }

InitFind ==
    /\ InitManager
    /\ threads = NoThreads
    /\ sm = NoSm
    /\ mt = NoMt
    /\ fm \in { [ NoFm EXCEPT !.requests = 1, !.users = <<ExampleUser>>,
                               !.user_id = u, !.groups = g, !.limit = l ] :
                 u \in FindUserIds, g \in GroupTables, l \in FindLimits }

SpecFind == InitFind /\ [][NextFind]_vars

\* ------------------------------------------------------------------------
\* The scheduler alone: calculate_next_review applied to a card state
\* ------------------------------------------------------------------------
CardStates ==
    { [ id |-> 1, category |-> NoCategory, ease_factor |-> e, interval |-> i,
        repetition_count |-> r, review_count |-> r ] :
      e \in min_ease_factor..max_ease_factor,
      i \in 1..MaxInterval,
      r \in 0..MaxRepetitions }

\* The card as the next session's dictionary would hold it once the result
\* is stored (_update_card_in_database, then _get_due_cards).
CardAfter(card_data, review_result) ==
    [ card_data EXCEPT !.ease_factor = review_result.new_ease_factor,
                       !.interval = review_result.new_interval,
                       !.repetition_count = review_result.repetitions,
                       !.review_count = review_result.review_count ]

SM2Review(quality) ==
    /\ sm.n < sm.limit
    /\ LET review_result == calculate_next_review(sm.card, quality, now)
       IN  sm' = [ sm EXCEPT !.n = @ + 1,
                             !.qualities = Append(@, quality),
                             !.before = sm.card,
                             !.result = review_result,
                             !.card = CardAfter(sm.card, review_result) ]
    /\ UNCHANGED <<now, nticks, nstarts, db, review_sessions, heap, resp, call, audit, threads, tally, mt, fm>>

NextSM2 == \E q \in QualityInputs : SM2Review(q)

\* One review of any card state of the bounded domain.
InitSM2 ==
    /\ InitManager
    /\ threads = NoThreads
    /\ sm \in { [ NoSm EXCEPT !.limit = 1, !.first = c, !.card = c ] : c \in CardStates }
    /\ mt = NoMt
    /\ fm = NoFm

SpecSM2 == InitSM2 /\ [][NextSM2]_vars

\* Up to MaxChain reviews of a card created with the column defaults, each
\* review applied to the state the previous one left.
InitChain ==
    /\ InitManager
    /\ threads = NoThreads
    /\ sm = [ NoSm EXCEPT !.limit = MaxChain,
                          !.first = CardDict(1, db), !.card = CardDict(1, db) ]
    /\ mt = NoMt
    /\ fm = NoFm

SpecChain == InitChain /\ [][NextSM2]_vars


\* ========================================================================
\* Properties of the scheduler
\* ========================================================================
InEaseRange(e) == min_ease_factor <= e /\ e <= max_ease_factor

LastQuality == sm.qualities[Len(sm.qualities)]

\* C7: for every prior ease factor in [1.3, 4.0] and every quality in 0..4
\* the scheduler returns an ease factor in [1.3, 4.0]; and every ease factor
\* stored in the flashcards table or recorded in a session's review log is
\* in [1.3, 4.0].
C7_EaseFactorBounds ==
    /\ (sm.n > 0 /\ InEaseRange(sm.before.ease_factor) /\ LastQuality \in 0..4)
           => InEaseRange(sm.result.new_ease_factor)
    /\ \A c \in CardIds : InEaseRange(db[c].ease_factor)
    /\ \A o \in DOMAIN heap :
          \A i \in 1..Len(heap[o].reviewed_cards) :
             InEaseRange(heap[o].reviewed_cards[i].new_ease_factor)

\* The lower clamp binds: 1.5 with quality 0 would be 0.7 and comes out 1.3.
C7_Witness ==
    /\ sm.n = 1
    /\ sm.before.ease_factor = 150
    /\ LastQuality = 0
    /\ sm.result.new_ease_factor = min_ease_factor

C28_GoodIsSuccess ==
    (sm.n > 0 /\ LastQuality = GOOD /\ LastQuality = RouteDefaultQuality)
        => /\ sm.result.repetitions = sm.before.repetition_count + 1
           /\ sm.before.repetition_count = 1 => sm.result.new_interval = 6

\* C9: for quality 3 or 4 the scheduler returns repetition_count = old + 1
\* and interval 1 when the new repetition_count is 1, 6 when it is 2, and
\* floor(old_interval * old_ease_factor) when it is >= 3; the interval is
\* always >= 1.
C9_SuccessInterval ==
    (sm.n > 0 /\ LastQuality \in 3..4)
        => /\ sm.result.repetitions = sm.before.repetition_count + 1
           /\ sm.result.new_interval =
                 ( IF sm.result.repetitions = 1 THEN 1
                   ELSE IF sm.result.repetitions = 2 THEN 6
                   ELSE ExactFloor(sm.before.interval, sm.before.ease_factor) )
           /\ sm.result.new_interval >= 1

\* C10: a card created with the defaults and reviewed with quality 4 three
\* times in a row has interval 1 after the first review, 6 after the second
\* and floor(6 * ease) after the third, which is 15 or 16.
C10_IntervalProgression ==
    /\ (sm.first = CardDict(1, db) /\ sm.qualities = <<4>>)
           => sm.result.new_interval = 1
    /\ (sm.first = CardDict(1, db) /\ sm.qualities = <<4, 4>>)
           => sm.result.new_interval = 6
    /\ (sm.first = CardDict(1, db) /\ sm.qualities = <<4, 4, 4>>)
           => /\ sm.result.new_interval = ExactFloor(6, sm.before.ease_factor)
              /\ sm.result.new_interval \in {15, 16}

C10_Witness ==
    /\ sm.first = CardDict(1, db)
    /\ sm.qualities = <<4, 4, 4>>
    /\ sm.before.interval = 6
    /\ sm.result.new_interval = 15

\* C11: for a fixed prior ease factor in [1.3, 4.0] and qualities q1 <= q2
\* in 0..4, the new ease factor for q2 is at least the new ease factor for
\* q1 (q1 is the quality of the review made, q2 ranges over the others).
C11_EaseMonotoneInQuality ==
    (sm.n > 0 /\ InEaseRange(sm.before.ease_factor) /\ LastQuality \in 0..4)
        => \A q2 \in LastQuality..4 :
              update_ease_factor(sm.before.ease_factor, q2)
                  >= sm.result.new_ease_factor

\* Strictly greater: 2.5 gives 2.36 for quality 3 and 2.5 for quality 4.
C11_Witness ==
    /\ sm.n = 1
    /\ sm.before.ease_factor = default_ease_factor
    /\ LastQuality = 3
    /\ sm.result.new_ease_factor = 236
    /\ update_ease_factor(sm.before.ease_factor, 4) = 250

\* C30: for every quality in 0..4 the ease change of a review is at most 0,
\* and 0 only for quality 4 (or when the ease factor is held at the minimum
\* 1.3), so the ease factor never increases: a review of a card whose ease
\* factor is at most the default 2.5 leaves it at most 2.5, and the upper
\* bound 4.0 of the clamp is not what limits it: even from 4.0 the result
\* is the value of the formula (or the minimum).
C30_EaseNeverIncreases ==
    (sm.n > 0 /\ InEaseRange(sm.before.ease_factor) /\ LastQuality \in 0..4)
        => /\ sm.result.new_ease_factor <= sm.before.ease_factor
           /\ LastQuality = 4 => sm.result.new_ease_factor = sm.before.ease_factor
           /\ (LastQuality < 4 /\ sm.before.ease_factor > min_ease_factor)
                  => sm.result.new_ease_factor < sm.before.ease_factor
           /\ sm.before.ease_factor <= default_ease_factor
                  => /\ sm.result.new_ease_factor <= default_ease_factor
                     /\ sm.result.new_ease_factor < max_ease_factor
           /\ sm.before.ease_factor = max_ease_factor
                  => sm.result.new_ease_factor =
                        Max2(min_ease_factor,
                             max_ease_factor - (5 - LastQuality) * (5 - LastQuality) * 2
                                 - (5 - LastQuality) * 8 + 10)

\* Quality 4 leaves the default 2.5 as it is.
C30_Witness ==
    /\ sm.n = 1
    /\ sm.before.ease_factor = default_ease_factor
    /\ LastQuality = 4
    /\ sm.result.new_ease_factor = default_ease_factor

\* C12: a quality outside 0..4 is coerced to 0: for every card state the
\* result (interval, repetition_count, ease factor, review_count, and the
\* quality and next_review reported) is the result for quality 0.
C12_OutOfRangeIsZero ==
    (sm.n > 0 /\ LastQuality \notin 0..4)
        => /\ sm.result = calculate_next_review(sm.before, 0, now)
           /\ sm.result.quality = 0
           /\ sm.result.new_interval = 1
           /\ sm.result.repetitions = 0
           /\ sm.result.new_ease_factor =
                 Max2(min_ease_factor, sm.before.ease_factor - 80)
           /\ sm.result.review_count = sm.before.review_count + 1

\* Quality 5 on a card with two repetitions: scheduled as a failure.
C12_Witness ==
    /\ sm.n = 1
    /\ LastQuality = 4 + OutOfRange
    /\ sm.before.repetition_count = 2
    /\ sm.before.ease_factor = default_ease_factor
    /\ sm.result.repetitions = 0
    /\ sm.result.new_ease_factor = 170


\* ========================================================================
\* Properties of the study-group matcher
\* ========================================================================

\* C20: for every user profile and group profile with skill levels among
\* beginner, intermediate, advanced and max_size > 0, the compatibility
\* score s satisfies 0.0 <= s <= 1.0.
C20_ScoreInUnitRange ==
    ( /\ mt.calls > 0
      /\ InList(mt.user.skill_level, skill_levels)
      /\ InList(mt.group.skill_level, skill_levels)
      /\ mt.group.max_size > 0 )
        => (0 <= mt.score /\ mt.score <= FullScore)

\* The upper bound is reached: every sub-score is 1.0.
C20_Witness ==
    /\ mt.calls = 1
    /\ mt.user.skill_level = mt.group.skill_level
    /\ mt.user.preferred_schedule = "morning"
    /\ mt.group.preferred_schedule = "morning"
    /\ mt.group.topic = "algorithms"
    /\ mt.group.current_size = 5
    /\ mt.group.max_size = MaxGroupSize
    /\ mt.score = FullScore

\* C21: the compatibility score is 0.40 * skill + 0.25 * interest
\* + 0.15 * schedule + 0.10 * activity + 0.10 * size of the five sub-scores,
\* and the exact-match example scores 0.97.
C21_WeightedSum ==
    mt.calls > 0 =>
        /\ mt.score * 10 =
                400 * calculate_skill_compatibility(
                          mt.user.skill_level, mt.group.skill_level)
              + 250 * calculate_interest_compatibility(
                          mt.user.interests, mt.group.topic)
              + 150 * calculate_schedule_compatibility(
                          mt.user.preferred_schedule, mt.group.preferred_schedule)
              + 100 * calculate_activity_compatibility(
                          mt.user.coding_hours_per_week,
                          mt.group.average_coding_hours)
              + 100 * calculate_size_compatibility(
                          mt.group.current_size, mt.group.max_size)
        /\ (mt.user = ExampleUser /\ mt.group = ExampleGroup) => mt.score = 970

\* The example has been scored.
C21_Witness ==
    /\ mt.calls = 1
    /\ mt.user = ExampleUser
    /\ mt.group = ExampleGroup
    /\ mt.score = 970


\* The topic, as written, is one of the user's interest tags.
ExactInterest(user_interests, group_topic) ==
    \E i \in 1..Len(user_interests) : Lower(user_interests[i]) = Lower(group_topic)

\* The topic is in the related-topics set of one of the user's interests.
RelatedInterest(user_interests, group_topic) ==
    \E i \in 1..Len(user_interests) :
        /\ Lower(user_interests[i]) \in DOMAIN topic_similarity_matrix
        /\ InList(Lower(group_topic), topic_similarity_matrix[Lower(user_interests[i])])

\* C22: when the group's topic is not exactly one of the user's interest
\* tags, the interest sub-score is 0.8 whenever the topic is in the
\* related-topics set of one of the user's interests (interest
\* system_design and topic scalability, for one).
C22_RelatedTopicScores ==
    ( /\ mt.calls > 0
      /\ ~ExactInterest(mt.user.interests, mt.group.topic)
      /\ RelatedInterest(mt.user.interests, mt.group.topic) )
        => mt.scores.interest = 8


\* The topic and one of the user's interests overlap as substrings.
SubstringInterest(user_interests, group_topic) ==
    \E i \in 1..Len(user_interests) :
        \/ Contains(Lower(user_interests[i]), Lower(group_topic))
        \/ Contains(Lower(group_topic), Lower(user_interests[i]))

\* C23: the interest sub-score is decided by the first rule that matches,
\* in the order exact (1.0), related (0.8), substring overlap (0.6), and is
\* 0.3 whenever none of the rules matches, a user with no interest tags at
\* all included.
C23_InterestPriority ==
    mt.calls > 0 =>
        mt.scores.interest =
            IF ExactInterest(mt.user.interests, mt.group.topic) THEN 10
            ELSE IF RelatedInterest(mt.user.interests, mt.group.topic) THEN 8
            ELSE IF SubstringInterest(mt.user.interests, mt.group.topic) THEN 6
            ELSE 3


\* The score of row i of the groups table for the user of the call.
RowScore(i) ==
    LET group == fm.groups[i]
    IN  calculate_compatibility_or_zero(
            fm.users[fm.user_id],
            [ topic |-> group.topic, skill_level |-> group.skill_level,
              current_size |-> group.members, max_size |-> group.max_members,
              average_coding_hours |->
                  IF group.members = 0 THEN 0 ELSE group.member_hours,
              preferred_schedule |-> "flexible" ])

\* The rows find_best_matches considers: active, with a free place.
Considered ==
    { i \in 1..Len(fm.groups) :
         fm.groups[i].is_active /\ fm.groups[i].members < fm.groups[i].max_members }

\* C24: find_best_matches returns only groups whose score is not below
\* 0.3, in non-increasing order of score, at most limit of them, and only
\* groups with fewer members than max_members; every considered group with
\* a score above the threshold that is not returned scores no higher than
\* any group returned.
C24_BestMatches ==
    fm.calls > 0 =>
        LET matches == fm.matches
            returned == { matches[k].group_id : k \in 1..Len(matches) }
        IN  /\ Len(matches) <= fm.limit
            /\ \A k \in 1..Len(matches) :
                  /\ matches[k].group_id \in 1..Len(fm.groups)
                  /\ matches[k].compatibility_score >= 300
                  /\ matches[k].compatibility_score = RowScore(matches[k].group_id)
                  /\ fm.groups[matches[k].group_id].members
                         < fm.groups[matches[k].group_id].max_members
            /\ \A k, l \in 1..Len(matches) :
                  k < l => matches[k].compatibility_score
                              >= matches[l].compatibility_score
            /\ fm.user_id \in DOMAIN fm.users =>
                  \A i \in Considered \ returned :
                     RowScore(i) > 300 =>
                        \A k \in 1..Len(matches) :
                           RowScore(i) <= matches[k].compatibility_score

\* With limit 1, the second row is returned and the first, considered and
\* above the threshold but scoring less, is not; the third row is full.
C24_Witness ==
    /\ fm.calls = 1
    /\ fm.limit = 1
    /\ Len(fm.matches) = 1
    /\ fm.matches[1].group_id = 2
    /\ 1 \in Considered
    /\ RowScore(1) > 300
    /\ RowScore(1) < fm.matches[1].compatibility_score
    /\ fm.groups[3].is_active
    /\ fm.groups[3].members = fm.groups[3].max_members



\* ========================================================================
\* Properties of the session manager under sequential requests
\* ========================================================================

\* C1: in a session started with N >= 1 due cards whose writes the card
\* store all accepts (and which the expiry sweep has not removed), the first
\* N-1 review_card calls each return 'continue' with the next card, and the
\* N-th call, and no earlier one, returns 'completed' with
\* total_cards_reviewed = N.
C1_SessionRunsToCompletion ==
    (call.op = "review_card" /\ call.stored /\ call.clean
        /\ 1 <= call.nth /\ call.nth <= call.n)
        => /\ resp.error = ""
           /\ call.position = call.nth
           /\ IF call.nth < call.n
              THEN /\ resp.status = "continue"
                   /\ resp.completed = call.nth
                   /\ resp.total = call.n
                   /\ call.sid \in DOMAIN review_sessions
                   /\ resp.current_card = Session(call.sid).cards[call.nth + 1].id
              ELSE /\ resp.status = "completed"
                   /\ resp.total_cards_reviewed = call.n
                   /\ call.sid \notin DOMAIN review_sessions

C1_Witness ==
    /\ call.op = "review_card"
    /\ call.clean
    /\ call.n = 2
    /\ call.nth = 2
    /\ resp.status = "completed"
    /\ resp.total_cards_reviewed = 2

\* C2: a review_card call on a session id whose last card has been reviewed
\* fails with SessionExhausted ('No more cards in session'), not with
\* SessionNotFound.
C2_ExhaustedAfterCompletion ==
    (call.op = "review_card" /\ call.finished)
        => (resp.error = SessionExhausted /\ resp.error # SessionNotFound)

\* C3: when the card store rejects the write of a review_card, the
\* session's cursor and review log are left unchanged and the call returns
\* a failure.
C3_RejectedWriteLeavesSession ==
    (call.op = "review_card" /\ call.applied /\ ~call.store_ok)
        => /\ call.index_after = call.index_before
           /\ call.log_after = call.log_before
           /\ resp.error # ""

\* C4: a review_card or get_session_progress call on a session that has had
\* no activity for more than the 2-hour timeout fails with SessionNotFound,
\* swept or not; no card is scheduled and the cursor does not advance.
C4_ExpiredNeverServed ==
    (call.op \in {"review_card", "progress"} /\ call.expired)
        => (resp.error = SessionNotFound /\ ~call.applied)

\* C6: the stored review_count of a card never decreases and goes up by
\* exactly 1 with every review applied to the card.
C6_ReviewCountCounts ==
    (call.op = "review_card" /\ call.applied)
        => /\ call.review_count_after >= call.review_count_before
           /\ call.store_ok
                 => call.review_count_after = call.review_count_before + 1

\* ========================================================================
\* Properties of start_review_session
\* ========================================================================
\* The session a start call has just created.
Created == call.op = "start" /\ resp.total > 0 /\ call.sid \in DOMAIN review_sessions

\* The cards of the table that are the user's, in the category asked for
\* (if any), and due at time t, by the table's own columns.
DueSet(table, user_id, category, t) ==
    { c \in DOMAIN table :
         /\ table[c].user_id = user_id
         /\ (category # NoCategory => table[c].category = category)
         /\ (table[c].next_review = NoTime \/ table[c].next_review <= t) }

\* C13: every card placed in a session by start_review_session belongs to
\* the requesting user, is in the category asked for when one is given, and
\* is due at session start: its next_review is absent or not later than the
\* current time.
C13_OnlyDueCardsSelected ==
    Created =>
        LET session == Session(call.sid)
        IN  \A i \in 1..Len(session.cards) :
               LET row == db[session.cards[i].id]
               IN  /\ row.user_id = session.user_id
                   /\ session.category # NoCategory
                         => row.category = session.category
                   /\ row.next_review = NoTime \/ row.next_review <= now

\* A session is created with the user's due card while the same user's
\* other card, in the same category, is due only a day later: it is left out.
C13_Witness ==
    /\ Created
    /\ Len(Session(call.sid).cards) = 1
    /\ \E c \in CardIds :
          /\ db[c].user_id = Session(call.sid).user_id
          /\ db[c].category = db[Session(call.sid).cards[1].id].category
          /\ db[c].next_review = now + SecondsPerDay

\* C14: the card list of a new session is non-decreasing in ease factor,
\* has length min(max_cards, number of due cards), and no due card left out
\* has a smaller ease factor than a card that was included.
C14_HardestFirstTruncated ==
    Created =>
        LET session == Session(call.sid)
            cards == session.cards
            due == DueSet(db, session.user_id, session.category, now)
            included == { cards[i].id : i \in 1..Len(cards) }
        IN  /\ \A i, j \in 1..Len(cards) :
                  i < j => cards[i].ease_factor <= cards[j].ease_factor
            /\ Len(cards) = Min2(session.max_cards, Cardinality(due))
            /\ Cardinality(included) = Len(cards)
            /\ \A c \in due \ included : \A i \in 1..Len(cards) :
                  db[c].ease_factor >= cards[i].ease_factor

\* Two due cards and max_cards = 1: the second row, with the smaller ease
\* factor, is the one taken.
C14_Witness ==
    /\ Created
    /\ Session(call.sid).max_cards = 1
    /\ Cardinality(DueSet(db, Session(call.sid).user_id,
                           Session(call.sid).category, now)) = 2
    /\ Session(call.sid).cards[1].id = 2
    /\ db[2].ease_factor < db[1].ease_factor

\* C15: when the user has no due cards, start_review_session returns a
\* result without error, with an empty card list and total_due 0, and the
\* sessions table (and every session in it) is left as it was.
C15_NoCardsDueNoSession ==
    [][ \A u \in Users, cat \in CategoryInputs, m \in MaxCardsInputs :
           (DueSet(db, u, cat, now) = {} /\ start_review_session(u, cat, m))
               => /\ resp'.error = ""
                  /\ resp'.card_ids = << >>
                  /\ resp'.total = 0
                  /\ review_sessions' = review_sessions
                  /\ heap' = heap ]_vars

\* A start that finds nothing due while an earlier session, one card
\* reviewed, is still in the table.
C15_Witness ==
    /\ call.op = "start"
    /\ resp.error = ""
    /\ resp.total = 0
    /\ resp.card_ids = << >>
    /\ DueSet(db, call.sid[1], "algorithms", now) = {}
    /\ \E x \in DOMAIN review_sessions : Session(x).current_card_index = 1

\* C16: review_card and get_session_progress called with a session id that
\* is not in the sessions table return the SessionNotFound error and change
\* nothing: no session's cursor or log, and no card's stored state.
C16_UnknownSessionChangesNothing ==
    [][ \A x \in SessionIdInputs :
           ( /\ x \notin DOMAIN review_sessions
             /\ \/ get_session_progress(x)
                \/ \E q \in ReviewQualities, ok \in BOOLEAN : review_card(x, q, ok) )
               => /\ resp'.error = SessionNotFound
                  /\ db' = db
                  /\ review_sessions' = review_sessions
                  /\ heap' = heap ]_vars

\* review_card on the id of a completed session, while another session,
\* one card reviewed, is in the table.
C16_Witness ==
    /\ call.op = "review_card"
    /\ ~call.stored
    /\ call.finished
    /\ resp.error = SessionNotFound
    /\ \E x \in DOMAIN review_sessions : Session(x).current_card_index = 1

\* C17: under sequential requests every stored session has
\* 0 <= cursor <= number of cards and a review log as long as the cursor;
\* from one state to the next a session's cursor never decreases, grows by
\* at most 1 and only in a review_card call, and its card list does not
\* change.  (A session is the dictionary created by one start call.)
C17_CursorInvariants ==
    /\ [](\A o \in DOMAIN heap :
             /\ 0 <= heap[o].current_card_index
             /\ heap[o].current_card_index <= Len(heap[o].cards)
             /\ Len(heap[o].reviewed_cards) = heap[o].current_card_index)
    /\ [][ \A o \in DOMAIN heap \cap DOMAIN heap' :
             /\ heap'[o].current_card_index >= heap[o].current_card_index
             /\ heap'[o].current_card_index <= heap[o].current_card_index + 1
             /\ heap'[o].current_card_index # heap[o].current_card_index
                   => (call'.op = "review_card" /\ call'.applied)
             /\ heap'[o].cards = heap[o].cards ]_vars

\* A two-card session after its first review, the write rejected or not.
C17_Witness ==
    /\ call.op = "review_card"
    /\ call.applied
    /\ call.sid \in DOMAIN review_sessions
    /\ Len(Session(call.sid).cards) = 2
    /\ Session(call.sid).current_card_index = 1
    /\ Len(Session(call.sid).reviewed_cards) = 1
    /\ call.index_before = 0

\* The id under which a stored session dictionary is kept.
StoredId(o) == CHOOSE x \in DOMAIN review_sessions : review_sessions[x] = o

\* C18: every session that is created is eventually removed from the
\* sessions table, by completing its last review or by the inactivity
\* timeout: a session does not stay stored forever once the clock has
\* passed its timeout (a session whose timeout the model's bounded clock
\* never reaches is not counted against the property).
C18_SessionEventuallyRemoved ==
    \A o \in 1..MaxStarts :
       (o \in DOMAIN heap)
           ~> \/ o \notin DOMAIN heap
              \/ nticks = MaxTicks /\ ~Expired(StoredId(o), now)

\* C19: get_session_progress is read-only: it changes no session and no
\* card; a second call on the same session right after a first, the clock
\* not advanced, returns the same result; and in each result
\* completed + remaining = total with completed equal to the cursor.
C19_ProgressReadOnly ==
    /\ [][ \A x \in SessionIdInputs :
             get_session_progress(x)
                 => /\ db' = db
                    /\ review_sessions' = review_sessions
                    /\ heap' = heap
                    /\ (call.op = "progress" /\ call.sid = x) => resp' = resp ]_vars
    /\ []((call.op = "progress" /\ call.stored)
              => /\ resp.error = ""
                 /\ resp.completed + resp.remaining = resp.total
                 /\ resp.completed = Session(call.sid).current_card_index)

\* Progress of a two-card session after its first review, asked for an
\* hour and more after the session started.
C19_Witness ==
    /\ call.op = "progress"
    /\ call.stored
    /\ resp.completed = 1
    /\ resp.remaining = 1
    /\ resp.total = 2
    /\ resp.duration >= SessionTimeout


\* C29: every start_review_session that creates a session stores it under
\* an id different from every session then in the table, so a start never
\* replaces or resets an active session, a second start by the same user
\* within the same clock second included.
C29_FreshSessionId ==
    [][ \A u \in Users, cat \in CategoryInputs, m \in MaxCardsInputs :
           ( /\ start_review_session(u, cat, m)
             /\ get_due_cards(u, cat, m, db, now) # << >> )
               => /\ SessionId(u, now) \notin DOMAIN review_sessions
                  /\ \A x \in DOMAIN review_sessions :
                        /\ x \in DOMAIN review_sessions'
                        /\ heap'[review_sessions'[x]] = heap[review_sessions[x]] ]_vars

\* C25: in every completion summary the five counts of the quality
\* histogram (qualities 0..4) add up to the number of cards reviewed, and
\* average_quality is the mean of the qualities the scheduler applied, for
\* any sequence of quality inputs, values outside 0..4 (applied as 0)
\* included.
C25_SummaryCountsApplied ==
    (call.op = "review_card" /\ resp.status = "completed")
        => /\ resp.quality_breakdown.again + resp.quality_breakdown.hard
                + resp.quality_breakdown.good + resp.quality_breakdown.easy
                + resp.quality_breakdown.perfect = resp.total_cards_reviewed
           /\ resp.average_quality =
                  RoundedMean(call.applied_sum, resp.total_cards_reviewed)

\* The time of a session's most recent activity: its start or its last
\* logged review.
LastActivity(session) ==
    IF session.reviewed_cards = << >> THEN session.start_time
    ELSE session.reviewed_cards[Len(session.reviewed_cards)].review_time

\* C26: cleanup_expired_sessions measures inactivity: it removes exactly
\* the sessions whose most recent activity (start or last review_card) is
\* more than 2 hours old, never one reviewed within the last 2 hours,
\* leaves every other session unchanged, and returns the number removed.
C26_CleanupByInactivity ==
    [][ cleanup_expired_sessions =>
          LET idle == { x \in DOMAIN review_sessions :
                           now - LastActivity(Session(x)) > SessionTimeout }
          IN  /\ DOMAIN review_sessions' = DOMAIN review_sessions \ idle
              /\ \A x \in DOMAIN review_sessions' :
                    /\ review_sessions'[x] = review_sessions[x]
                    /\ heap'[review_sessions'[x]] = heap[review_sessions[x]]
              /\ resp'.total = Cardinality(idle) ]_vars

\* C27: after a review_card whose write succeeds the card's stored
\* next_review is the review time plus the new interval in days, and its
\* stored ease factor, interval, repetition_count and review_count are the
\* scheduler's output; consequently no start_review_session selects the
\* card until the new interval (at least 1 day) has elapsed: while it has
\* not, the card is not among the cards a start would take.
C27_ReviewSchedulesCard ==
    /\ (call.op = "review_card" /\ call.applied /\ call.store_ok)
          => LET row == db[call.card_id]
                 review_result == call.result
             IN  /\ review_result.new_interval >= 1
                 /\ row.next_review = now + review_result.new_interval * SecondsPerDay
                 /\ row.ease_factor = review_result.new_ease_factor
                 /\ row.interval = review_result.new_interval
                 /\ row.repetition_count = review_result.repetitions
                 /\ row.review_count = review_result.review_count
    /\ \A c \in CardIds :
          now < tally.not_before[c]
              => LET due_cards == get_due_cards(db[c].user_id, NoCategory,
                                                RouteMaxCards, db, now)
                 IN  \A i \in 1..Len(due_cards) : due_cards[i].id # c

\* ========================================================================
\* Properties of the session manager under concurrent requests
\* ========================================================================
Quiet == \A t \in DOMAIN threads : threads[t].pc \in {"idle", "done"}

\* C5: concurrent review_card requests on one session id are serialised or
\* rejected: each card position of a session is persisted at most once, the
\* cursor never exceeds the card count and, when no request is running,
\* equals the number of reviews recorded, and the completion summary of a
\* session is produced at most once.
C5_ReviewsSerialised ==
    /\ \A k \in DOMAIN tally.persisted : tally.persisted[k] <= 1
    /\ \A o \in DOMAIN tally.summaries : tally.summaries[o] <= 1
    /\ \A o \in DOMAIN heap :
          /\ heap[o].current_card_index <= Len(heap[o].cards)
          /\ Quiet => heap[o].current_card_index = Len(heap[o].reviewed_cards)

====
